---------------------------- MODULE Spec2Model ----------------------------
(***************************************************************************)
(* Monochrome browser extension: the background coordinator                *)
(* (src/src/background.ts), the popup (src/unnamed/part_000) and the       *)
(* content script (src/.dist/content.js) over chrome.storage.local.        *)
(*                                                                         *)
(* Every handler of the program is an async function.  A handler is a      *)
(* record in the bag `handlers`; its field pc is the await it is suspended *)
(* at, and one action is the code between two awaits.  Handlers of         *)
(* different events interleave at their awaits (Spec); SeqSpec is the same *)
(* program with the events arriving far enough apart that a handler has    *)
(* returned before the next one starts.                                    *)
(*                                                                         *)
(* chrome.storage.local is taken to be reliable (get and set do not        *)
(* reject); delivery to a page (tabs.sendMessage, scripting.executeScript) *)
(* and the badge calls may fail.  Tab ids are never reused.                *)
(***************************************************************************)
EXTENDS Integers, Sequences, FiniteSets, Bags, TLC

\* ------------------------------------------------------------------ bounds
MaxTabs == 2          \* tab ids are 1..MaxTabs
MaxInFlight == 2      \* handlers suspended at an await at the same time
MaxMsgs == 1          \* runtime messages on their way to the background
MaxEvents == 3        \* browser and user events in one run, one handler at a time
MaxOverlapping == 2   \* browser and user events in one run with interleaved handlers
MaxIframes == 2       \* iframe elements the page inserts
MaxCalls == 3         \* calls of toggleGrayscale in one document
MaxClicks == 3        \* clicks on the popup's toggle button
MaxInitFailures == 2  \* failed attempts in a row of initializeState the model follows

\* ------------------------------------------------------- program constants
Retries == 3          \* applyGrayscaleToTab(..., retries = 3, ...)

TabIds == 1..MaxTabs
NoTabId == 0          \* "no tab" / tab without id (falsy in the code)

\* ------------------------------------------------------------ stored data
\* interface TabState; has = FALSE is a key that is not in storage
NoTab == [has |-> FALSE, isGrayscale |-> FALSE]
TabState(b) == [has |-> TRUE, isGrayscale |-> b]

\* interface GlobalSettings; globalGrayscaleState is optional
Undefined == "undefined"
BoolVal(b) == IF b THEN "true" ELSE "false"
NoSettings == [has |-> FALSE, applyToAllTabs |-> FALSE, globalGrayscaleState |-> Undefined]
GlobalSettings(a, g) == [has |-> TRUE, applyToAllTabs |-> a, globalGrayscaleState |-> g]

\* JavaScript truthiness of an optional boolean: undefined || false, !undefined
Truthy(g) == g = "true"

\* settingsResult.globalSettings || { applyToAllTabs: false, globalGrayscaleState: false }
SettingsOrDefault(gs) == IF gs.has THEN gs ELSE GlobalSettings(FALSE, "false")

\* result[`tab_${tabId}`] || { isGrayscale: false }
TabStateOrDefault(r) == IF r.has THEN r ELSE TabState(FALSE)

\* ------------------------------------------------------- page of one tab
\* cls: html.monochrome-enabled present; filter: documentElement.style.filter
FreshPage == [cls |-> FALSE, filter |-> "unset"]
FilterValue(b) == IF b THEN "grayscale" ELSE "none"

\* the page is rendered in grayscale: the rule html.monochrome-enabled
\* { filter: grayscale(100%) !important } wins over the inline style; without the
\* class the inline style decides
PageGray(p) == p.cls \/ p.filter = "grayscale"

VARIABLES
    globalSettings,   \* storage key globalSettings
    tabStore,         \* storage keys tab_<id>
    life,             \* per tab id: "unborn", "open" or "closed"
    activeTab,        \* the active tab of the current window, NoTabId if none
    badge,            \* per tab: the badge text, "ON" or ""
    page,             \* per tab: the document the content script runs in
    handlers,         \* bag of the handler invocations suspended at an await
    msgs,             \* runtime messages sent and not yet received
    checkbox,         \* applyToAllTabsCheckbox.checked of the popup document
    sequential,       \* TRUE: an event is dispatched only when no handler is suspended
    events,           \* number of browser and user events so far
    pre,              \* history: the storage when the running handler(s) started
    done,             \* history: the handler that returned last, until the next one starts
    burst,            \* history: the toggle requests since the last quiescent state
    replies           \* the responses the background has sent since the last quiescent state

\* the content script of one document in detail (its observer, its iframes)
VARIABLES
    doc,              \* the root element: class and inline filter
    hasBody,          \* document.body exists
    mutationObserver, \* the module variable: NoObserver (null) or an observer
    created,          \* number of observers setupMutationObserver has created
    observing,        \* the observers registered on document.body
    bodyObservers,    \* number of bodyObserver instances waiting for document.body
    records,          \* iframes in mutation records queued for the observer callback
    timers,           \* per observer: the pending timeout of its debounced function
    iframes,          \* per iframe element: where it is and what was done to it
    frames,           \* the requestAnimationFrame callbacks not yet run
    answers,          \* the responses the content script has sent
    last              \* history: the last toggleGrayscale call

vars == <<globalSettings, tabStore, life, activeTab, badge, page, handlers,
          msgs, checkbox, sequential, events, pre, done, burst, replies>>

contentVars == <<doc, hasBody, mutationObserver, created, observing, bodyObservers,
                 records, timers, iframes, frames, answers, last>>

\* the popup document in detail (its toggle button)
VARIABLES
    popupOpen,        \* the popup window is open
    outbox,           \* the runtime messages the click listener has sent, in order
    click             \* the click listener: where it is, and (history) what it found

popupVars == <<popupOpen, outbox, click>>

\* the popup document with the status indicator (src/README.md)
VARIABLES
    statusIndicator   \* statusIndicator.textContent; NoPopup while no such popup is open

statusVars == <<statusIndicator>>

detailVars == <<contentVars, popupVars, statusVars>>

allVars == <<vars, contentVars, popupVars, statusVars>>

store == <<globalSettings, tabStore>>
browser == <<life, activeTab>>

OpenTabs == {t \in TabIds : life[t] = "open"}

\* chrome.tabs.query({}) lists the open tabs; the model lists them by ascending id
RECURSIVE Ascending(_)
Ascending(S) ==
    IF S = {} THEN <<>>
    ELSE LET m == CHOOSE x \in S : \A y \in S : x <= y
         IN  <<m>> \o Ascending(S \ {m})

QueryAllTabs == Ascending(OpenTabs)

\* ---------------------------------------------------------------- handlers
\* kind: the listener; pc: the await it is suspended at; tabId: the tab the event
\* is about; arg: message.applyToAllTabs; val: the state being applied (newState,
\* isGrayscale); cur, attempt: tabId and attempt of the applyGrayscaleToTab call
\* in progress; queue: the tabs the loop of applyGrayscaleToAllTabs has yet to visit
NoHandler == [kind |-> "none", pc |-> "none", tabId |-> NoTabId, arg |-> FALSE,
              val |-> FALSE, cur |-> NoTabId, queue |-> <<>>, attempt |-> 0]

\* a handler invocation as it is dispatched: kind, first await, tab argument,
\* boolean argument
Handler(kind, pc, tabId, arg) ==
    [NoHandler EXCEPT !.kind = kind, !.pc = pc, !.tabId = tabId, !.arg = arg]

Running == BagToSet(handlers)
Quiescent == handlers = EmptyBag
Put(h) == handlers (+) SetToBag({h})
Replace(h, h2) == (handlers (-) SetToBag({h})) (+) SetToBag({h2})
Remove(h) == handlers (-) SetToBag({h})

\* an event listener may be entered now
CanDispatch ==
    IF sequential THEN Quiescent ELSE BagCardinality(handlers) < MaxInFlight

\* one more browser or user event
EventLimit == IF sequential THEN MaxEvents ELSE MaxOverlapping

Occurs ==
    /\ events < EventLimit
    /\ events' = events + 1

Snapshot == [globalSettings |-> globalSettings, tabStore |-> tabStore]
NoDone == [kind |-> "none", tabId |-> NoTabId, arg |-> FALSE, val |-> FALSE]
NoBurst == [tab |-> NoTabId, n |-> 0]
Spoiled == [tab |-> NoTabId, n |-> MaxEvents + 1]

\* toggleGrayscaleForTab is run by the icon click and by the toggleCurrentTab message
IsToggle(h) == h.kind \in {"onClicked", "toggleCurrentTab"}

\* a response of the background's onMessage listener; success and tabId are
\* the fields of the object passed to sendResponse, Undefined / NoTabId if absent
Response(action, sender, success, tabId) ==
    [action |-> action, sender |-> sender, success |-> success, tabId |-> tabId]

\* variant: the toggleCurrentTab listener returns without calling sendResponse
RespondsToUpdateOnly(h) == h.kind = "updateGlobalSetting"

\* the listeners that end with sendResponse({ success: true })
Responds(h) == h.kind \in {"updateGlobalSetting", "toggleCurrentTab"}

\* history kept when handler h is dispatched; snap is the state the event found
Dispatched(h, snap) ==
    /\ pre' = IF Quiescent THEN snap ELSE pre
    /\ done' = NoDone
    /\ replies' = IF Quiescent THEN <<>> ELSE replies
    /\ UNCHANGED detailVars
    /\ burst' =
         IF IsToggle(h)
         THEN IF Quiescent THEN [tab |-> h.tabId, n |-> 1]
              ELSE IF burst.tab = h.tabId
                   THEN [burst EXCEPT !.n = @ + 1]
                   ELSE Spoiled
         ELSE Spoiled

Dispatch(h) ==
    /\ CanDispatch
    /\ handlers' = Put(h)
    /\ Dispatched(h, Snapshot)

\* handler h returns; val is the state it applied
FinishWith(h, val) ==
    /\ handlers' = Remove(h)
    /\ done' = [kind |-> h.kind, tabId |-> h.tabId, arg |-> h.arg, val |-> val]
    /\ replies' = IF Responds(h)
                  THEN Append(replies, Response(h.kind, NoTabId, BoolVal(TRUE), NoTabId))
                  ELSE replies
    /\ UNCHANGED <<pre, burst, detailVars>>

Finish(h) == FinishWith(h, h.val)

\* handler h moves on to its next await
Continue(h, h2) ==
    /\ handlers' = Replace(h, h2)
    /\ UNCHANGED <<pre, done, burst, replies, detailVars>>

\* ------------------------------------------------------------ updateIcon
\* chrome.action.setBadgeText rejects for a tab that is gone; updateIcon catches
\* it.  Badge colour and title are set from the same isGrayscale.
\* variant: the badge text does not depend on isGrayscale
BadgeTextAlwaysOn(isGrayscale) == "ON"

BadgeText(isGrayscale) == IF isGrayscale THEN "ON" ELSE ""

updateIcon(tabId, isGrayscale) ==
    badge' = IF tabId \in OpenTabs
             THEN [badge EXCEPT ![tabId] = BadgeText(isGrayscale)]
             ELSE badge

\* ---------------------------------------------------- applyGrayscaleToTab
\* the call applyGrayscaleToTab(tabId, isGrayscale) made by handler h; queue is
\* what the caller's loop has left
StartApply(h, tabId, isGrayscale, queue) ==
    [h EXCEPT !.pc = "setTab", !.cur = tabId, !.val = isGrayscale,
              !.queue = queue, !.attempt = 1]

\* variant: the loop of applyGrayscaleToAllTabs is left after its first tab
ReturnedAfterFirst(h) == Finish(h)

\* applyGrayscaleToTab has returned to applyGrayscaleToAllTabs (next tab of the
\* loop) or to the listener, which returns
Returned(h) ==
    IF h.queue # <<>>
    THEN Continue(h, StartApply(h, Head(h.queue), h.val, Tail(h.queue)))
    ELSE Finish(h)

\* await chrome.storage.local.set({ [`tab_${tabId}`]: { isGrayscale } })
ApplySetTab(h) ==
    /\ h.pc = "setTab"
    /\ tabStore' = [tabStore EXCEPT ![h.cur] = TabState(h.val)]
    /\ Continue(h, [h EXCEPT !.pc = "icon"])
    /\ UNCHANGED <<globalSettings, browser, badge, page, msgs, sequential, checkbox, events>>

\* variant: the delivery is tried without the icon having been updated
ApplyIconSkipped(h) ==
    /\ h.pc = "icon"
    /\ Continue(h, [h EXCEPT !.pc = "send"])
    /\ UNCHANGED <<store, browser, badge, page, msgs, sequential, checkbox, events>>

\* await updateIcon(tabId, isGrayscale)
ApplyIcon(h) ==
    /\ h.pc = "icon"
    /\ updateIcon(h.cur, h.val)
    /\ Continue(h, [h EXCEPT !.pc = "send"])
    /\ UNCHANGED <<store, browser, page, msgs, sequential, checkbox, events>>

\* the content script's onMessage listener: toggleGrayscale(message.isGrayscale),
\* then the requestAnimationFrame callback sets style.filter
ContentToggle(p, isGrayscale) ==
    [p EXCEPT !.cls = isGrayscale, !.filter = FilterValue(isGrayscale)]

\* await chrome.tabs.sendMessage(...) resolved: return
ApplySendOk(h) ==
    /\ h.pc = "send"
    /\ h.cur \in OpenTabs
    /\ page' = [page EXCEPT ![h.cur] = ContentToggle(@, h.val)]
    /\ Returned(h)
    /\ UNCHANGED <<store, browser, badge, msgs, sequential, checkbox, events>>

\* await chrome.tabs.sendMessage(...) rejected (no content script, tab gone)
ApplySendFail(h) ==
    /\ h.pc = "send"
    /\ Continue(h, [h EXCEPT !.pc = "exec"])
    /\ UNCHANGED <<store, browser, badge, page, msgs, sequential, checkbox, events>>

\* await chrome.scripting.executeScript(...) resolved: return
ApplyExecOk(h) ==
    /\ h.pc = "exec"
    /\ h.cur \in OpenTabs
    /\ page' = [page EXCEPT ![h.cur].filter = FilterValue(h.val)]
    /\ Returned(h)
    /\ UNCHANGED <<store, browser, badge, msgs, sequential, checkbox, events>>

\* variant: the delay is awaited after every failed attempt, the last included
ApplyExecFailThenWait(h) ==
    /\ h.pc = "exec"
    /\ Continue(h, [h EXCEPT !.pc = "delay"])
    /\ UNCHANGED <<store, browser, badge, page, msgs, sequential, checkbox, events>>

\* variant: a tab whose last attempt failed ends the loop over the tabs
ApplyExecFailAborts(h) ==
    /\ h.pc = "exec"
    /\ IF h.attempt < Retries
       THEN Continue(h, [h EXCEPT !.pc = "delay"])
       ELSE Finish(h)
    /\ UNCHANGED <<store, browser, badge, page, msgs, sequential, checkbox, events>>

\* variant: the record written by the call is removed when the last attempt failed
ApplyExecFailRollback(h) ==
    /\ h.pc = "exec"
    /\ IF h.attempt < Retries
       THEN Continue(h, [h EXCEPT !.pc = "delay"]) /\ UNCHANGED tabStore
       ELSE Returned(h) /\ tabStore' = [tabStore EXCEPT ![h.cur] = NoTab]
    /\ UNCHANGED <<globalSettings, browser, badge, page, msgs, sequential, checkbox, events>>

\* executeScript rejected: wait `delay` if an attempt is left, else give up
ApplyExecFail(h) ==
    /\ h.pc = "exec"
    /\ IF h.attempt < Retries
       THEN Continue(h, [h EXCEPT !.pc = "delay"])
       ELSE Returned(h)
    /\ UNCHANGED <<store, browser, badge, page, msgs, sequential, checkbox, events>>

\* await new Promise(resolve => setTimeout(resolve, delay)) resolved: attempt++
ApplyRetry(h) ==
    /\ h.pc = "delay"
    /\ Continue(h, [h EXCEPT !.pc = "setTab", !.attempt = @ + 1])
    /\ UNCHANGED <<store, browser, badge, page, msgs, sequential, checkbox, events>>

\* ------------------------------------------------ applyGrayscaleToAllTabs
\* const tabs = await chrome.tabs.query({}); for (const tab of tabs) ...
ApplyAllQuery(h) ==
    /\ h.pc = "queryTabs"
    /\ IF QueryAllTabs = <<>>
       THEN Finish(h)
       ELSE Continue(h, StartApply(h, Head(QueryAllTabs), h.val, Tail(QueryAllTabs)))
    /\ UNCHANGED <<store, browser, badge, page, msgs, sequential, checkbox, events>>

\* ---------------------------------------------------- toggleGrayscaleForTab
\* newState = !globalSettings.globalGrayscaleState
GlobalToggled(gs) == ~Truthy(gs.globalGrayscaleState)

\* variant: the stored state is written back without the negation
TabToggledNoFlip(r) == TabStateOrDefault(r).isGrayscale

\* newState = !tabState.isGrayscale
TabToggled(r) == ~TabStateOrDefault(r).isGrayscale

\* chrome.action.onClicked: the toolbar icon of the active tab is clicked
IconClicked(t) ==
    /\ t = activeTab
    /\ t # NoTabId
    /\ Occurs
    /\ Dispatch(Handler("onClicked", "getSettings", t, FALSE))
    /\ UNCHANGED <<store, browser, badge, page, msgs, sequential, checkbox>>

\* const settingsResult = await chrome.storage.local.get('globalSettings')
ToggleGetSettings(h) ==
    /\ IsToggle(h)
    /\ h.pc = "getSettings"
    /\ LET gs == SettingsOrDefault(globalSettings) IN
       IF gs.applyToAllTabs
       THEN Continue(h, [h EXCEPT !.pc = "setGlobal", !.val = GlobalToggled(gs)])
       ELSE Continue(h, [h EXCEPT !.pc = "getTab"])
    /\ UNCHANGED <<store, browser, badge, page, msgs, sequential, checkbox, events>>

\* variant: the fan-out starts without globalSettings having been written
ToggleSkipGlobal(h) ==
    /\ IsToggle(h)
    /\ h.pc = "setGlobal"
    /\ Continue(h, [h EXCEPT !.pc = "queryTabs"])
    /\ UNCHANGED <<store, browser, badge, page, msgs, sequential, checkbox, events>>

\* await chrome.storage.local.set({ globalSettings: { applyToAllTabs: true,
\* globalGrayscaleState: newState } })
ToggleSetGlobal(h) ==
    /\ IsToggle(h)
    /\ h.pc = "setGlobal"
    /\ globalSettings' = GlobalSettings(TRUE, BoolVal(h.val))
    /\ Continue(h, [h EXCEPT !.pc = "queryTabs"])
    /\ UNCHANGED <<tabStore, browser, badge, page, msgs, sequential, checkbox, events>>

\* const result = await chrome.storage.local.get(`tab_${tabId}`)
ToggleGetTab(h) ==
    /\ IsToggle(h)
    /\ h.pc = "getTab"
    /\ Continue(h, StartApply(h, h.tabId, TabToggled(tabStore[h.tabId]), <<>>))
    /\ UNCHANGED <<store, browser, badge, page, msgs, sequential, checkbox, events>>

\* ------------------------------------------------- messages to the background
Message(action, applyToAllTabs, tabId) ==
    [action |-> action, applyToAllTabs |-> applyToAllTabs, tabId |-> tabId]

\* chrome.runtime.onMessage listener of the background: the branch taken
Listener(m) ==
    IF m.action = "updateGlobalSetting"
    THEN Handler("updateGlobalSetting", "getSettings", NoTabId, m.applyToAllTabs)
    ELSE Handler("toggleCurrentTab", "getSettings", m.tabId, FALSE)

BackgroundReceives(m) ==
    /\ m \in msgs
    /\ msgs' = msgs \ {m}
    /\ Dispatch(Listener(m))
    /\ UNCHANGED <<store, browser, badge, page, sequential, checkbox, events>>

\* ----------------------------------------------- onMessage updateGlobalSetting
\* variant: the branch on message.applyToAllTabs is missing
UpdateGetSettingsNoBranch(h) ==
    /\ h.kind = "updateGlobalSetting"
    /\ h.pc = "getSettings"
    /\ Continue(h, [h EXCEPT !.pc = "queryActive"])
    /\ UNCHANGED <<store, browser, badge, page, msgs, sequential, checkbox, events>>

\* const settingsResult = await chrome.storage.local.get('globalSettings'); the
\* value read is overwritten in both branches
UpdateGetSettings(h) ==
    /\ h.kind = "updateGlobalSetting"
    /\ h.pc = "getSettings"
    /\ Continue(h, [h EXCEPT !.pc = IF h.arg THEN "queryActive" ELSE "setOff"])
    /\ UNCHANGED <<store, browser, badge, page, msgs, sequential, checkbox, events>>

\* const tabs = await chrome.tabs.query({ active: true, currentWindow: true })
UpdateQueryActive(h) ==
    /\ h.kind = "updateGlobalSetting"
    /\ h.pc = "queryActive"
    /\ IF activeTab # NoTabId
       THEN Continue(h, [h EXCEPT !.pc = "getTab", !.cur = activeTab])
       ELSE Continue(h, [h EXCEPT !.pc = "setOn", !.val = FALSE])
    /\ UNCHANGED <<store, browser, badge, page, msgs, sequential, checkbox, events>>

\* variant: the record of the active tab is not looked at
ActiveTabStateDefault(r) == FALSE

\* activeTabState = result[`tab_${tabs[0].id}`] || { isGrayscale: false }
ActiveTabState(r) == TabStateOrDefault(r).isGrayscale

UpdateGetTab(h) ==
    /\ h.kind = "updateGlobalSetting"
    /\ h.pc = "getTab"
    /\ Continue(h, [h EXCEPT !.pc = "setOn", !.val = ActiveTabState(tabStore[h.cur])])
    /\ UNCHANGED <<store, browser, badge, page, msgs, sequential, checkbox, events>>

\* globalSettings = { applyToAllTabs: true, globalGrayscaleState: activeTabState.isGrayscale }
EnabledSettings(isGrayscale) == GlobalSettings(TRUE, BoolVal(isGrayscale))

\* await chrome.storage.local.set({ globalSettings })
UpdateSetOn(h) ==
    /\ h.kind = "updateGlobalSetting"
    /\ h.pc = "setOn"
    /\ globalSettings' = EnabledSettings(h.val)
    /\ Continue(h, [h EXCEPT !.pc = "queryTabs"])
    /\ UNCHANGED <<tabStore, browser, badge, page, msgs, sequential, checkbox, events>>

\* globalSettings = { applyToAllTabs: false }; set; sendResponse
UpdateSetOff(h) ==
    /\ h.kind = "updateGlobalSetting"
    /\ h.pc = "setOff"
    /\ globalSettings' = GlobalSettings(FALSE, Undefined)
    /\ Finish(h)
    /\ UNCHANGED <<tabStore, browser, badge, page, msgs, sequential, checkbox, events>>

\* ------------------------------------------------------------------- popup
\* variant: no record checks the checkbox
PopupCheckedUnlessOff(gs) == ~gs.has \/ gs.applyToAllTabs

\* (result.globalSettings || { applyToAllTabs: false }).applyToAllTabs
PopupChecked(gs) == gs.has /\ gs.applyToAllTabs

\* the popup is opened: a new popup document, its checkbox unchecked;
\* DOMContentLoaded calls initializePopup()
PopupOpened ==
    /\ Occurs
    /\ checkbox' = FALSE
    /\ Dispatch(Handler("initializePopup", "getSettings", NoTabId, FALSE))
    /\ UNCHANGED <<store, browser, badge, page, msgs, sequential>>

\* const result = await chrome.storage.local.get('globalSettings');
\* applyToAllTabsCheckbox.checked = globalSettings.applyToAllTabs
PopupInitGetSettings(h) ==
    /\ h.kind = "initializePopup"
    /\ h.pc = "getSettings"
    /\ checkbox' = PopupChecked(globalSettings)
    /\ FinishWith(h, PopupChecked(globalSettings))
    /\ UNCHANGED <<store, browser, badge, page, msgs, sequential, events>>

\* the 'change' listener of the checkbox; checked is the value the user's click
\* leaves the checkbox with (the popup may have been reopened since the last
\* change, so either value can follow any state); the argument of
\* storage.local.set is built from it before the first await
PopupChanged(checked) ==
    /\ Cardinality(msgs) < MaxMsgs
    /\ Occurs
    /\ checkbox' = checked
    /\ Dispatch(Handler("popupChange", "popupSet", NoTabId, checked))
    /\ UNCHANGED <<store, browser, badge, page, msgs, sequential>>

\* await chrome.storage.local.set({ globalSettings: { applyToAllTabs: checked } })
PopupSet(h) ==
    /\ h.kind = "popupChange"
    /\ h.pc = "popupSet"
    /\ globalSettings' = GlobalSettings(h.arg, Undefined)
    /\ Continue(h, [h EXCEPT !.pc = "popupSend"])
    /\ UNCHANGED <<tabStore, browser, badge, page, msgs, sequential, checkbox, events>>

\* chrome.runtime.sendMessage({ action: 'updateGlobalSetting', applyToAllTabs })
PopupSend(h) ==
    /\ h.kind = "popupChange"
    /\ h.pc = "popupSend"
    /\ msgs' = msgs \cup {Message("updateGlobalSetting", checkbox, NoTabId)}
    /\ Finish(h)
    /\ UNCHANGED <<store, browser, badge, page, sequential, checkbox, events>>

\* variant: the message is sent whatever the query returned
ClickSendsAlways(tab) == TRUE

\* if (tab && tab.id)
ClickSends(tab) == tab # NoTabId

\* { action: 'toggleCurrentTab', tabId: tab.id }
ToggleMessage(tab) == Message("toggleCurrentTab", FALSE, tab)

\* the 'click' listener of the toggle button: query the active tab, send
\* toggleCurrentTab if it has an id, close the popup
PopupToggleClicked ==
    /\ ClickSends(activeTab)
    /\ Cardinality(msgs) < MaxMsgs
    /\ Occurs
    /\ msgs' = msgs \cup {ToggleMessage(activeTab)}
    /\ UNCHANGED <<store, browser, badge, page, handlers, sequential, checkbox, pre, done,
                   burst,
                   replies, detailVars>>

\* -------------------------------------- onActivated, onUpdated, onCreated
\* globalSettings.globalGrayscaleState || false
GlobalStateOrFalse(gs) == Truthy(gs.globalGrayscaleState)

\* tabState?.isGrayscale || false
IconState(r) == r.has /\ r.isGrayscale

\* chrome.tabs.onActivated: tab t becomes the active tab
TabActivated(t) ==
    /\ t \in OpenTabs
    /\ t # activeTab
    /\ Occurs
    /\ activeTab' = t
    /\ Dispatch(Handler("onActivated", "getSettings", t, FALSE))
    /\ UNCHANGED <<store, life, badge, page, msgs, sequential, checkbox>>

\* chrome.tabs.onUpdated with changeInfo.status === 'complete'
TabUpdatedComplete(t) ==
    /\ t \in OpenTabs
    /\ Occurs
    /\ Dispatch(Handler("onUpdated", "getSettings", t, FALSE))
    /\ UNCHANGED <<store, browser, badge, page, msgs, sequential, checkbox>>

\* changeInfo.status of an onUpdated event
UpdateStatuses == {"loading", "complete"}

\* variant: the listener runs whatever the status is
UpdateHandledAlways(status) == TRUE

\* if (changeInfo.status === 'complete' && tab.id)
UpdateHandled(status) == status = "complete"

\* chrome.tabs.onUpdated: with any status but 'complete' the listener returns
\* at once
TabUpdated(t, status) ==
    IF UpdateHandled(status)
    THEN TabUpdatedComplete(t)
    ELSE /\ t \in OpenTabs
         /\ CanDispatch
         /\ events < EventLimit
         /\ UNCHANGED allVars

\* the id the browser gives the next tab
NextTabId == Cardinality({t \in TabIds : life[t] # "unborn"}) + 1

\* chrome.tabs.onCreated: a tab is opened
TabCreated(t) ==
    /\ t \in TabIds
    /\ t = NextTabId
    /\ Occurs
    /\ life' = [life EXCEPT ![t] = "open"]
    /\ Dispatch(Handler("onCreated", "getSettings", t, FALSE))
    /\ UNCHANGED <<store, activeTab, badge, page, msgs, sequential, checkbox>>

\* variant: the listeners apply the global state whatever applyToAllTabs is
TabEventGetSettingsNoMode(h) ==
    /\ h.kind \in {"onActivated", "onUpdated", "onCreated"}
    /\ h.pc = "getSettings"
    /\ Continue(h, StartApply(h, h.tabId,
                              GlobalStateOrFalse(SettingsOrDefault(globalSettings)), <<>>))
    /\ UNCHANGED <<store, browser, badge, page, msgs, sequential, checkbox, events>>

\* const settingsResult = await chrome.storage.local.get('globalSettings') of the
\* three listeners, and the branch on applyToAllTabs
TabEventGetSettings(h) ==
    /\ h.kind \in {"onActivated", "onUpdated", "onCreated"}
    /\ h.pc = "getSettings"
    /\ LET gs == SettingsOrDefault(globalSettings) IN
       IF gs.applyToAllTabs
       THEN Continue(h, StartApply(h, h.tabId, GlobalStateOrFalse(gs), <<>>))
       ELSE IF h.kind = "onCreated"
            THEN Finish(h)
            ELSE Continue(h, [h EXCEPT !.pc = "getTabIcon"])
    /\ UNCHANGED <<store, browser, badge, page, msgs, sequential, checkbox, events>>

\* const result = await chrome.storage.local.get(`tab_${tabId}`)
TabEventGetTab(h) ==
    /\ h.kind \in {"onActivated", "onUpdated"}
    /\ h.pc = "getTabIcon"
    /\ Continue(h, [h EXCEPT !.pc = "iconOnly", !.val = IconState(tabStore[h.tabId])])
    /\ UNCHANGED <<store, browser, badge, page, msgs, sequential, checkbox, events>>

\* await updateIcon(tabId, tabState?.isGrayscale || false)
TabEventIcon(h) ==
    /\ h.kind \in {"onActivated", "onUpdated"}
    /\ h.pc = "iconOnly"
    /\ updateIcon(h.tabId, h.val)
    /\ Finish(h)
    /\ UNCHANGED <<store, browser, page, msgs, sequential, checkbox, events>>

\* ---------------------------------------------------------------- onRemoved
\* the handlers of the content script of tab t end with its document
WithoutContentScript(t) ==
    LET keep == {h \in DOMAIN handlers : ~(h.kind = "initializeState" /\ h.tabId = t)}
    IN  [h \in keep |-> handlers[h]]

\* variant: every tab key is removed
RemoveAllTabKeys(t) == [u \in TabIds |-> NoTab]

\* chrome.tabs.onRemoved: chrome.storage.local.remove(`tab_${tabId}`)
RemoveTabKey(t) == [tabStore EXCEPT ![t] = NoTab]

\* tab t is closed; the listener has no await
TabRemoved(t) ==
    /\ t \in OpenTabs
    /\ sequential => Quiescent
    /\ Occurs
    /\ life' = [life EXCEPT ![t] = "closed"]
    /\ activeTab' = IF activeTab = t THEN NoTabId ELSE activeTab
    /\ badge' = [badge EXCEPT ![t] = ""]
    /\ page' = [page EXCEPT ![t] = FreshPage]
    /\ tabStore' = RemoveTabKey(t)
    /\ handlers' = WithoutContentScript(t)
    /\ pre' = IF Quiescent THEN Snapshot ELSE pre
    /\ done' = [NoDone EXCEPT !.kind = "onRemoved", !.tabId = t]
    /\ burst' = Spoiled
    /\ replies' = IF Quiescent THEN <<>> ELSE replies
    /\ UNCHANGED <<globalSettings, msgs, sequential, checkbox, detailVars>>

\* ---------------------------------------------------------------- onInstalled
Installed ==
    /\ Occurs
    /\ Dispatch(Handler("onInstalled", "getSettings", NoTabId, FALSE))
    /\ UNCHANGED <<store, browser, badge, page, msgs, sequential, checkbox>>

\* variant: the default is written whether or not a record exists
InstalledGetSettingsAlways(h) ==
    /\ h.kind = "onInstalled"
    /\ h.pc = "getSettings"
    /\ Continue(h, [h EXCEPT !.pc = "setDefault"])
    /\ UNCHANGED <<store, browser, badge, page, msgs, sequential, checkbox, events>>

\* const result = await chrome.storage.local.get('globalSettings')
InstalledGetSettings(h) ==
    /\ h.kind = "onInstalled"
    /\ h.pc = "getSettings"
    /\ IF ~globalSettings.has
       THEN Continue(h, [h EXCEPT !.pc = "setDefault"])
       ELSE Finish(h)
    /\ UNCHANGED <<store, browser, badge, page, msgs, sequential, checkbox, events>>

\* await chrome.storage.local.set({ globalSettings: { applyToAllTabs: false,
\* globalGrayscaleState: false } })
InstalledSetDefault(h) ==
    /\ h.kind = "onInstalled"
    /\ h.pc = "setDefault"
    /\ globalSettings' = GlobalSettings(FALSE, "false")
    /\ Finish(h)
    /\ UNCHANGED <<tabStore, browser, badge, page, msgs, sequential, checkbox, events>>

\* ------------------------------------------------------------ content script
\* variant: the class is added but never removed
PageToggleAddOnly(p, enabled) == [p EXCEPT !.cls = @ \/ enabled]

\* toggleGrayscale(enabled): the class on the root element
PageToggle(p, enabled) == [p EXCEPT !.cls = enabled]

\* a new document is loaded in tab t: the content script starts and calls
\* initializeState()
PageLoaded(t) ==
    /\ t \in OpenTabs
    /\ CanDispatch
    /\ Occurs
    /\ page' = [page EXCEPT ![t] = FreshPage]
    /\ handlers' = WithoutContentScript(t) (+)
                      SetToBag({Handler("initializeState", "getTabId", t, FALSE)})
    /\ Dispatched(Handler("initializeState", "getTabId", t, FALSE), Snapshot)
    /\ UNCHANGED <<store, browser, badge, msgs, sequential, checkbox>>

\* document 'DOMContentLoaded': initializeState() once more in the same document
DomContentLoaded(t) ==
    /\ t \in OpenTabs
    /\ Occurs
    /\ Dispatch(Handler("initializeState", "getTabId", t, FALSE))
    /\ UNCHANGED <<store, browser, badge, page, msgs, sequential, checkbox>>

\* variant: the background answers with the id of the active tab
GetTabIdResponseActive(senderTab) ==
    Response("getTabId", senderTab, Undefined, activeTab)

\* the background's listener for getTabId: sendResponse({ tabId: sender.tab.id })
GetTabIdResponse(senderTab) ==
    Response("getTabId", senderTab, Undefined, senderTab)

\* const tabId = await getCurrentTabId(): the background answered; the content
\* script keeps response.tabId (cur) for the storage key it reads
InitGotTabId(h) ==
    /\ h.kind = "initializeState"
    /\ h.pc = "getTabId"
    /\ handlers' = Replace(h, [h EXCEPT !.pc = "getSettings", !.attempt = 0,
                                        !.cur = GetTabIdResponse(h.tabId).tabId])
    /\ replies' = Append(replies, GetTabIdResponse(h.tabId))
    /\ UNCHANGED <<pre, done, burst, detailVars>>
    /\ UNCHANGED <<store, browser, badge, page, msgs, sequential, checkbox, events>>

\* no tab id (the background did not answer): setTimeout(initializeState, 500);
\* return.  The code keeps no count; attempt counts the failures in a row of
\* this document and is capped to keep the model finite.
InitNoTabId(h) ==
    /\ h.kind = "initializeState"
    /\ h.pc = "getTabId"
    /\ h.attempt < MaxInitFailures
    /\ Continue(h, [h EXCEPT !.pc = "retry", !.attempt = @ + 1])
    /\ UNCHANGED <<store, browser, badge, page, msgs, sequential, checkbox, events>>

\* the 500 ms timer fires: initializeState() again
InitRetry(h) ==
    /\ h.kind = "initializeState"
    /\ h.pc = "retry"
    /\ Continue(h, [h EXCEPT !.pc = "getTabId"])
    /\ UNCHANGED <<store, browser, badge, page, msgs, sequential, checkbox, events>>

\* isGrayscale = globalSettings.globalGrayscaleState ?? false
GlobalStateOrFalseNullish(gs) == gs.globalGrayscaleState = "true"

\* variant: the stored tab state is not restored
InitTabStateOff(r) == FALSE

\* isGrayscale = tabState?.isGrayscale ?? false
InitTabState(r) == r.has /\ r.isGrayscale

\* variant: the tab's own record is used whatever applyToAllTabs is
InitGetSettingsPerTab(h) ==
    /\ h.kind = "initializeState"
    /\ h.pc = "getSettings"
    /\ Continue(h, [h EXCEPT !.pc = "getTab"])
    /\ UNCHANGED <<store, browser, badge, page, msgs, sequential, checkbox, events>>

\* const settingsResult = await chrome.storage.local.get('globalSettings')
InitGetSettings(h) ==
    /\ h.kind = "initializeState"
    /\ h.pc = "getSettings"
    /\ LET gs == SettingsOrDefault(globalSettings) IN
       IF gs.applyToAllTabs
       THEN /\ page' = [page EXCEPT ![h.tabId] =
                           PageToggle(@, GlobalStateOrFalseNullish(gs))]
            /\ FinishWith(h, GlobalStateOrFalseNullish(gs))
       ELSE /\ page' = page
            /\ Continue(h, [h EXCEPT !.pc = "getTab"])
    /\ UNCHANGED <<store, browser, badge, msgs, sequential, checkbox, events>>

\* const result = await chrome.storage.local.get(`tab_${tabId}`);
\* toggleGrayscale(isGrayscale)
InitGetTab(h) ==
    /\ h.kind = "initializeState"
    /\ h.pc = "getTab"
    /\ page' = [page EXCEPT ![h.tabId] = PageToggle(@, InitTabState(tabStore[h.cur]))]
    /\ FinishWith(h, InitTabState(tabStore[h.cur]))
    /\ UNCHANGED <<store, browser, badge, msgs, sequential, checkbox, events>>

\* ------------------------------------------- content script, one document
\* The observer, the debounced iframe processing and the message listener of
\* the content script of a single document.
NoObserver == 0
ObserverIds == 1..MaxCalls
IframeIds == 1..MaxIframes

\* debounce(): `timeout` and the arguments captured by the pending callback
NoTimer == [armed |-> FALSE, args |-> {}]

\* variant: the pending callback's arguments are kept when the timer is re-armed
DebouncedKeeping(timer, args) == [armed |-> TRUE, args |-> timer.args \cup args]

\* clearTimeout(timeout); timeout = setTimeout(() => func(...args), waitFor)
Debounced(timer, args) == [armed |-> TRUE, args |-> args]

\* an iframe element: attached under document.body or not yet; whether its
\* document is same-origin; whether its root has the grayscale filter; due:
\* (history) inserted while grayscale was enabled, not processed since, and
\* grayscale not disabled since
NoIframe == [attached |-> FALSE, sameOrigin |-> FALSE, filter |-> FALSE, due |-> FALSE]

\* the last call of toggleGrayscale: who called, its argument, the observer held
\* before it, the number of calls so far and how many of them were messages
NoCall == [by |-> "none", enabled |-> FALSE, held |-> NoObserver, n |-> 0, m |-> 0]

InitDocument ==
    /\ doc = FreshPage
    /\ hasBody = FALSE
    /\ mutationObserver = NoObserver
    /\ created = 0
    /\ observing = {}
    /\ bodyObservers = 0
    /\ records = [o \in ObserverIds |-> {}]
    /\ timers = [o \in ObserverIds |-> NoTimer]
    /\ iframes = [i \in IframeIds |-> NoIframe]
    /\ frames = <<>>
    /\ answers = <<>>
    /\ last = NoCall

\* variant: setupMutationObserver without its early return
ObserverHeldIgnored(o) == FALSE

\* if (mutationObserver) return;
ObserverHeld(o) == o # NoObserver

\* setupMutationObserver()
setupMutationObserver ==
    IF ObserverHeld(mutationObserver)
    THEN UNCHANGED <<mutationObserver, created, observing, bodyObservers>>
    ELSE /\ created' = created + 1
         /\ mutationObserver' = created + 1
         /\ IF hasBody
            THEN /\ observing' = observing \cup {created + 1}
                 /\ bodyObservers' = bodyObservers
            ELSE /\ observing' = observing
                 /\ bodyObservers' = bodyObservers + 1

\* disconnectMutationObserver(); disconnect() also empties the record queue
disconnectMutationObserver ==
    /\ observing' = observing \ {mutationObserver}
    /\ records' = [o \in ObserverIds |->
                     IF o = mutationObserver THEN {} ELSE records[o]]
    /\ mutationObserver' = NoObserver
    /\ UNCHANGED <<created, bodyObservers>>

\* toggleGrayscale(enabled), called as the n-th call by `by`
toggleGrayscale(enabled, by) ==
    /\ last.n < MaxCalls
    /\ doc' = PageToggle(doc, enabled)
    /\ IF enabled
       THEN setupMutationObserver /\ UNCHANGED <<records, iframes>>
       ELSE /\ disconnectMutationObserver
            /\ iframes' = [i \in IframeIds |-> [iframes[i] EXCEPT !.due = FALSE]]
    /\ last' = [by |-> by, enabled |-> enabled, held |-> mutationObserver,
                n |-> last.n + 1,
                m |-> IF by = "message" THEN last.m + 1 ELSE last.m]
    /\ UNCHANGED <<hasBody, timers>>

\* chrome.runtime.onMessage of the content script: toggleGrayscale, schedule
\* the inline filter, sendResponse({ success: true })
ReceiveToggle(isGrayscale) ==
    /\ toggleGrayscale(isGrayscale, "message")
    /\ frames' = Append(frames, isGrayscale)
    /\ answers' = Append(answers, Response("toggleGrayscale", NoTabId, BoolVal(TRUE), NoTabId))
    /\ UNCHANGED <<vars, popupVars, statusVars>>

\* initializeState() reaches toggleGrayscale(isGrayscale) with the stored state
InitializeStateToggles(isGrayscale) ==
    /\ toggleGrayscale(isGrayscale, "initializeState")
    /\ UNCHANGED <<frames, answers, vars, popupVars, statusVars>>

\* the requestAnimationFrame callback of the oldest message runs
AnimationFrame ==
    /\ frames # <<>>
    /\ doc' = [doc EXCEPT !.filter = FilterValue(Head(frames))]
    /\ frames' = Tail(frames)
    /\ UNCHANGED <<hasBody, mutationObserver, created, observing, bodyObservers,
                   records, timers, iframes, answers, last, vars, popupVars, statusVars>>

\* the parser inserts document.body; every waiting bodyObserver runs its callback
BodyParsed ==
    /\ ~hasBody
    /\ hasBody' = TRUE
    /\ observing' = IF bodyObservers > 0 /\ mutationObserver # NoObserver
                    THEN observing \cup {mutationObserver}
                    ELSE observing
    /\ bodyObservers' = 0
    /\ UNCHANGED <<doc, mutationObserver, created, records, timers, iframes,
                   frames, answers, last, vars, popupVars, statusVars>>

\* the page inserts iframe i under document.body: a mutation record is queued
\* for every observer registered on the body
IframeInserted(i, sameOrigin) ==
    /\ hasBody
    /\ ~iframes[i].attached
    /\ iframes' = [iframes EXCEPT ![i] =
                     [attached |-> TRUE, sameOrigin |-> sameOrigin,
                      filter |-> FALSE, due |-> doc.cls]]
    /\ records' = [o \in ObserverIds |->
                     IF o \in observing THEN records[o] \cup {i} ELSE records[o]]
    /\ UNCHANGED <<doc, hasBody, mutationObserver, created, observing,
                   bodyObservers, timers, frames, answers, last, vars, popupVars, statusVars>>

\* the callback of observer o runs with the queued records:
\* processAddedNodesDebounced(mutations)
RecordsDelivered(o) ==
    /\ records[o] # {}
    /\ timers' = [timers EXCEPT ![o] = Debounced(@, records[o])]
    /\ records' = [records EXCEPT ![o] = {}]
    /\ UNCHANGED <<doc, hasBody, mutationObserver, created, observing,
                   bodyObservers, iframes, frames, answers, last, vars, popupVars, statusVars>>

\* applyGrayscaleToIframe(iframe): reading contentDocument of a cross-origin
\* iframe throws (or yields null), which is caught
applyGrayscaleToIframe(f) ==
    [f EXCEPT !.filter = IF f.sameOrigin THEN TRUE ELSE @, !.due = FALSE]

\* 50 ms after the last call of o's debounced function: processMutations(args)
TimerFired(o) ==
    /\ timers[o].armed
    /\ iframes' = [i \in IframeIds |->
                     IF i \in timers[o].args
                     THEN applyGrayscaleToIframe(iframes[i])
                     ELSE iframes[i]]
    /\ timers' = [timers EXCEPT ![o] = NoTimer]
    /\ UNCHANGED <<doc, hasBody, mutationObserver, created, observing,
                   bodyObservers, records, frames, answers, last, vars, popupVars, statusVars>>

ContentNext ==
    \/ \E b \in BOOLEAN : ReceiveToggle(b)
    \/ \E b \in BOOLEAN : InitializeStateToggles(b)
    \/ AnimationFrame
    \/ BodyParsed
    \/ \E i \in IframeIds, sameOrigin \in BOOLEAN : IframeInserted(i, sameOrigin)
    \/ \E o \in ObserverIds : RecordsDelivered(o)
    \/ \E o \in ObserverIds : TimerFired(o)

\* ------------------------------------------------- popup, the toggle button
\* The click listener of the popup's toggle button with the popup window: the
\* query for the active tab of the current window, the message, window.close().
NoClick == [pc |-> "idle", n |-> 0, tab |-> NoTabId, before |-> <<>>]

InitPopupWindow ==
    /\ popupOpen = FALSE
    /\ outbox = <<>>
    /\ click = NoClick

\* the user opens the popup
PopupShown ==
    /\ ~popupOpen
    /\ click.pc # "query"
    /\ popupOpen' = TRUE
    /\ click' = [click EXCEPT !.pc = "idle"]
    /\ UNCHANGED <<outbox, vars, contentVars, statusVars>>

\* the user clicks the toggle button: chrome.tabs.query({ active: true,
\* currentWindow: true }) is awaited
ToggleButtonClicked ==
    /\ popupOpen
    /\ click.pc = "idle"
    /\ click.n < MaxClicks
    /\ click' = [click EXCEPT !.pc = "query", !.n = @ + 1]
    /\ UNCHANGED <<popupOpen, outbox, vars, contentVars, statusVars>>

\* the query resolved with the active tab (none, or one without id: NoTabId):
\* sendMessage if (tab && tab.id), then window.close()
ToggleButtonQueried ==
    /\ click.pc = "query"
    /\ outbox' = IF ClickSends(activeTab)
                 THEN Append(outbox, ToggleMessage(activeTab))
                 ELSE outbox
    /\ popupOpen' = FALSE
    /\ click' = [click EXCEPT !.pc = "done", !.tab = activeTab, !.before = outbox]
    /\ UNCHANGED <<vars, contentVars, statusVars>>

\* another tab of the current window becomes its active tab, or the current
\* window is left with no active tab that has an id
ActiveTabChanged(t) ==
    /\ t # activeTab
    /\ activeTab' = t
    /\ UNCHANGED <<store, life, badge, page, handlers, msgs, checkbox, sequential,
                   events, pre, done, burst, replies, contentVars, popupVars, statusVars>>

PopupNext ==
    \/ PopupShown
    \/ ToggleButtonClicked
    \/ ToggleButtonQueried
    \/ \E t \in OpenTabs \cup {NoTabId} : ActiveTabChanged(t)

\* ------------------------------------------------------------ specification
\* a fresh install: nothing stored; the browser has k >= 1 tabs open, one active
\* ------------------------------------- the popup with the status indicator
\* The popup of src/README.md: initializePopup also shows the state of the
\* active tab, the toggle button sets the indicator before it sends
\* toggleCurrentTab and leaves the popup open.  Its 'change' listener is the one
\* of PopupChanged.  Its onMessage listener waits for 'tabStateChanged', a
\* message the background never sends, so it has no step here.
\* no popup with a status indicator is open
NoPopup == "none"

\* the indicator before updateStatusIndicator has run
Unset == ""

InitStatusPopup == statusIndicator = NoPopup

\* updateStatusIndicator(isGrayscale): statusIndicator.textContent
IndicatorText(isGrayscale) == IF isGrayscale THEN "ON" ELSE "OFF"

\* a listener of the popup is entered; ind is what the indicator shows then
StatusDispatch(h, ind) ==
    /\ CanDispatch
    /\ handlers' = Put(h)
    /\ statusIndicator' = ind
    /\ pre' = IF Quiescent THEN Snapshot ELSE pre
    /\ done' = NoDone
    /\ burst' = Spoiled
    /\ replies' = IF Quiescent THEN <<>> ELSE replies
    /\ UNCHANGED <<contentVars, popupVars>>

\* a listener of the popup moves on to its next await
StatusContinue(h, h2) ==
    /\ handlers' = Replace(h, h2)
    /\ UNCHANGED <<pre, done, burst, replies, detailVars>>

\* a listener of the popup returns, the indicator showing ind
StatusFinish(h, ind) ==
    /\ handlers' = Remove(h)
    /\ statusIndicator' = ind
    /\ done' = [kind |-> h.kind, tabId |-> h.cur, arg |-> h.arg, val |-> h.val]
    /\ UNCHANGED <<pre, burst, replies, contentVars, popupVars>>

\* the popup is opened: DOMContentLoaded runs initializePopup
StatusPopupOpened ==
    /\ Occurs
    /\ checkbox' = FALSE
    /\ StatusDispatch(Handler("statusInit", "getSettings", NoTabId, FALSE), Unset)
    /\ UNCHANGED <<store, browser, badge, page, msgs, sequential>>

\* const settingsResult = await chrome.storage.local.get('globalSettings');
\* applyToAllTabsCheckbox.checked = globalSettings.applyToAllTabs
StatusInitGetSettings(h) ==
    /\ h.kind = "statusInit"
    /\ h.pc = "getSettings"
    /\ checkbox' = PopupChecked(globalSettings)
    /\ StatusContinue(h, [h EXCEPT !.pc = "queryTab"])
    /\ UNCHANGED <<store, browser, badge, page, msgs, sequential, events>>

\* const [tab] = await chrome.tabs.query({ active: true, currentWindow: true });
\* if (tab && tab.id), in initializePopup and in the click listener
StatusQueryTab(h) ==
    /\ h.kind \in {"statusInit", "statusClick"}
    /\ h.pc = "queryTab"
    /\ IF ClickSends(activeTab)
       THEN StatusContinue(h, [h EXCEPT !.pc = "getTab", !.cur = activeTab])
       ELSE StatusFinish(h, statusIndicator)
    /\ UNCHANGED <<store, browser, badge, page, msgs, sequential, checkbox, events>>

\* const tabResult = await chrome.storage.local.get(`tab_${tab.id}`);
\* updateStatusIndicator(tabState.isGrayscale)
StatusInitGetTab(h) ==
    /\ h.kind = "statusInit"
    /\ h.pc = "getTab"
    /\ StatusFinish(h, IndicatorText(TabStateOrDefault(tabStore[h.cur]).isGrayscale))
    /\ UNCHANGED <<store, browser, badge, page, msgs, sequential, checkbox, events>>

\* the 'click' listener of the toggle button
StatusToggleClicked ==
    /\ statusIndicator # NoPopup
    /\ Occurs
    /\ StatusDispatch(Handler("statusClick", "queryTab", NoTabId, FALSE), statusIndicator)
    /\ UNCHANGED <<store, browser, badge, page, msgs, sequential, checkbox>>

\* const tabResult = await chrome.storage.local.get(`tab_${tab.id}`);
\* updateStatusIndicator(!currentState.isGrayscale);
\* chrome.runtime.sendMessage({ action: 'toggleCurrentTab', tabId: tab.id })
StatusClickGetTab(h) ==
    /\ h.kind = "statusClick"
    /\ h.pc = "getTab"
    /\ Cardinality(msgs) < MaxMsgs
    /\ msgs' = msgs \cup {ToggleMessage(h.cur)}
    /\ StatusFinish(h, IndicatorText(~TabStateOrDefault(tabStore[h.cur]).isGrayscale))
    /\ UNCHANGED <<store, browser, badge, page, sequential, checkbox, events>>

\* the popup's listeners and the background's handlers of its messages
StatusNext ==
    \/ StatusPopupOpened
    \/ StatusToggleClicked
    \/ \E checked \in BOOLEAN : PopupChanged(checked)
    \/ \E m \in msgs : BackgroundReceives(m)
    \/ \E h \in Running : StatusInitGetSettings(h)
    \/ \E h \in Running : StatusQueryTab(h)
    \/ \E h \in Running : StatusInitGetTab(h)
    \/ \E h \in Running : StatusClickGetTab(h)
    \/ \E h \in Running : PopupSet(h)
    \/ \E h \in Running : PopupSend(h)
    \/ \E h \in Running : ToggleGetSettings(h)
    \/ \E h \in Running : ToggleSetGlobal(h)
    \/ \E h \in Running : ToggleGetTab(h)
    \/ \E h \in Running : UpdateGetSettings(h)
    \/ \E h \in Running : UpdateQueryActive(h)
    \/ \E h \in Running : UpdateGetTab(h)
    \/ \E h \in Running : UpdateSetOn(h)
    \/ \E h \in Running : UpdateSetOff(h)
    \/ \E h \in Running : ApplyAllQuery(h)
    \/ \E h \in Running : ApplySetTab(h)
    \/ \E h \in Running : ApplyIcon(h)
    \/ \E h \in Running : ApplySendOk(h)
    \/ \E h \in Running : ApplySendFail(h)
    \/ \E h \in Running : ApplyExecOk(h)
    \/ \E h \in Running : ApplyExecFail(h)
    \/ \E h \in Running : ApplyRetry(h)

InitProgram ==
    /\ globalSettings = NoSettings
    /\ tabStore = [t \in TabIds |-> NoTab]
    /\ \E k \in TabIds : life = [t \in TabIds |-> IF t <= k THEN "open" ELSE "unborn"]
    /\ activeTab \in OpenTabs
    /\ badge = [t \in TabIds |-> ""]
    /\ page = [t \in TabIds |-> FreshPage]
    /\ handlers = EmptyBag
    /\ msgs = {}
    /\ checkbox = FALSE
    /\ events = 0
    /\ pre = Snapshot
    /\ done = NoDone
    /\ burst = NoBurst
    /\ replies = <<>>
    /\ InitDocument
    /\ InitPopupWindow
    /\ InitStatusPopup

Init == InitProgram /\ sequential = FALSE
SeqInit == InitProgram /\ sequential = TRUE

\* one handler resumes from the await it is suspended at
Resume ==
    \/ \E h \in Running : ApplySetTab(h)
    \/ \E h \in Running : ApplyIcon(h)
    \/ \E h \in Running : ApplySendOk(h)
    \/ \E h \in Running : ApplySendFail(h)
    \/ \E h \in Running : ApplyExecOk(h)
    \/ \E h \in Running : ApplyExecFail(h)
    \/ \E h \in Running : ApplyRetry(h)
    \/ \E h \in Running : ApplyAllQuery(h)
    \/ \E h \in Running : ToggleGetSettings(h)
    \/ \E h \in Running : ToggleSetGlobal(h)
    \/ \E h \in Running : ToggleGetTab(h)
    \/ \E h \in Running : UpdateGetSettings(h)
    \/ \E h \in Running : UpdateQueryActive(h)
    \/ \E h \in Running : UpdateGetTab(h)
    \/ \E h \in Running : UpdateSetOn(h)
    \/ \E h \in Running : UpdateSetOff(h)
    \/ \E h \in Running : PopupInitGetSettings(h)
    \/ \E h \in Running : PopupSet(h)
    \/ \E h \in Running : PopupSend(h)
    \/ \E h \in Running : TabEventGetSettings(h)
    \/ \E h \in Running : TabEventGetTab(h)
    \/ \E h \in Running : TabEventIcon(h)
    \/ \E h \in Running : InstalledGetSettings(h)
    \/ \E h \in Running : InstalledSetDefault(h)
    \/ \E h \in Running : InitGotTabId(h)
    \/ \E h \in Running : InitNoTabId(h)
    \/ \E h \in Running : InitRetry(h)
    \/ \E h \in Running : InitGetSettings(h)
    \/ \E h \in Running : InitGetTab(h)

\* the browser or the user does something
Event ==
    \/ \E t \in TabIds : IconClicked(t)
    \/ \E m \in msgs : BackgroundReceives(m)
    \/ PopupOpened
    \/ \E checked \in BOOLEAN : PopupChanged(checked)
    \/ PopupToggleClicked
    \/ \E t \in TabIds : TabActivated(t)
    \/ \E t \in TabIds, status \in UpdateStatuses : TabUpdated(t, status)
    \/ \E t \in TabIds : TabCreated(t)
    \/ \E t \in TabIds : TabRemoved(t)
    \/ Installed
    \/ \E t \in TabIds : PageLoaded(t)
    \/ \E t \in TabIds : DomContentLoaded(t)

Next == Event \/ Resume

Spec == Init /\ [][Next]_allVars
SeqSpec == SeqInit /\ [][Next]_allVars

\* apply-to-all mode at rest with everything off: the state a fresh install is
\* in after the checkbox was checked and updateGlobalSetting was handled, every
\* delivery having reached its content script
AllTabsAtRest ==
    /\ globalSettings = GlobalSettings(TRUE, "false")
    /\ tabStore = [t \in TabIds |-> IF t \in OpenTabs THEN TabState(FALSE) ELSE NoTab]
    /\ activeTab \in OpenTabs
    /\ badge = [t \in TabIds |-> ""]
    /\ page = [t \in TabIds |->
                 IF t \in OpenTabs THEN ContentToggle(FreshPage, FALSE) ELSE FreshPage]
    /\ handlers = EmptyBag
    /\ msgs = {}
    /\ checkbox = TRUE

AllTabsInit ==
    /\ \E k \in TabIds : life = [t \in TabIds |-> IF t <= k THEN "open" ELSE "unborn"]
    /\ AllTabsAtRest
    /\ events = 0
    /\ pre = Snapshot
    /\ done = NoDone
    /\ burst = NoBurst
    /\ replies = <<>>
    /\ InitDocument
    /\ InitPopupWindow
    /\ InitStatusPopup
    /\ sequential = FALSE

\* interleaved handlers, started from a fresh install or from apply-to-all mode
\* at rest
AllTabsSpec == (Init \/ AllTabsInit) /\ [][Next]_allVars

\* a fresh install with the popup open, initializePopup having returned
StatusOpenInit ==
    /\ globalSettings = NoSettings
    /\ tabStore = [t \in TabIds |-> NoTab]
    /\ \E k \in TabIds : life = [t \in TabIds |-> IF t <= k THEN "open" ELSE "unborn"]
    /\ activeTab \in OpenTabs
    /\ badge = [t \in TabIds |-> ""]
    /\ page = [t \in TabIds |-> FreshPage]
    /\ handlers = EmptyBag
    /\ msgs = {}
    /\ checkbox = FALSE
    /\ events = 0
    /\ pre = Snapshot
    /\ done = NoDone
    /\ burst = NoBurst
    /\ replies = <<>>
    /\ InitDocument
    /\ InitPopupWindow
    /\ statusIndicator = IndicatorText(FALSE)
    /\ sequential = FALSE

\* the popup with the status indicator and the background, handlers
\* interleaved, started with the popup closed or open
StatusSpec == (Init \/ StatusOpenInit) /\ [][StatusNext]_allVars

\* the content script of one document in detail, the rest of the program at rest
ContentInit ==
    /\ InitProgram
    /\ sequential = TRUE
    /\ life = [t \in TabIds |-> "open"]
    /\ activeTab = 1

ContentSpec == ContentInit /\ [][ContentNext]_allVars

\* the popup's toggle button in detail, the rest of the program at rest
PopupSpec == SeqInit /\ [][PopupNext]_allVars

\* ------------------------------------------------------------------ claims
ApplyToAll(gs) == SettingsOrDefault(gs).applyToAllTabs
StoredOn(r) == r.has /\ r.isGrayscale
ToggleDone == done.kind \in {"onClicked", "toggleCurrentTab"}
OthersUnchanged(t) == \A u \in TabIds \ {t} : tabStore[u] = pre.tabStore[u]

\* C1: in per-tab mode a toggle of tab t (icon click or toggleCurrentTab) that
\* has returned has negated the stored isGrayscale of tab_t (no record = false)
\* and left every other tab record and globalSettings as they were.
C1_PerTabToggle ==
    (ToggleDone /\ ~ApplyToAll(pre.globalSettings)) =>
        /\ tabStore[done.tabId] = TabState(~StoredOn(pre.tabStore[done.tabId]))
        /\ OthersUnchanged(done.tabId)
        /\ globalSettings = pre.globalSettings

C1_Witness ==
    /\ done.kind = "toggleCurrentTab"
    /\ ~ApplyToAll(pre.globalSettings)
    /\ \E u \in TabIds \ {done.tabId} : StoredOn(tabStore[u])

\* C2: in apply-to-all mode, once a toggle has returned every open tab has a
\* tab record and all these records hold the same isGrayscale.
C2_AllTabsSame ==
    (ToggleDone /\ ApplyToAll(pre.globalSettings)) =>
        \A t, u \in OpenTabs : tabStore[t].has /\ tabStore[t] = tabStore[u]

C2_Witness ==
    /\ ToggleDone
    /\ ApplyToAll(pre.globalSettings)
    /\ Cardinality(OpenTabs) >= 2
    /\ \E t \in OpenTabs : pre.tabStore[t] # tabStore[t]

\* C3: in apply-to-all mode a toggle of tab t sets the stored isGrayscale of
\* every open tab to the negation of what tab t had stored just before the
\* toggle (no record = false).
C3_NegatesToggledTab ==
    (ToggleDone /\ ApplyToAll(pre.globalSettings)) =>
        \A u \in OpenTabs :
            tabStore[u] = TabState(~StoredOn(pre.tabStore[done.tabId]))

\* the active tab's stored state as updateGlobalSetting finds it
ActiveStored == activeTab # NoTabId /\ StoredOn(pre.tabStore[activeTab])

\* C4: updateGlobalSetting with applyToAllTabs = true stores globalSettings =
\* {applyToAllTabs: true, globalGrayscaleState: s}, s the stored isGrayscale of
\* the active tab (false without active tab or record), and when it has
\* returned every open tab's stored isGrayscale is s.
C4_EnableApplyToAll ==
    (done.kind = "updateGlobalSetting" /\ done.arg) =>
        /\ globalSettings = GlobalSettings(TRUE, BoolVal(ActiveStored))
        /\ \A t \in OpenTabs : tabStore[t] = TabState(ActiveStored)

C4_Witness ==
    /\ done.kind = "updateGlobalSetting"
    /\ done.arg
    /\ ActiveStored
    /\ \E t \in OpenTabs : ~pre.tabStore[t].has

\* C5: updateGlobalSetting with applyToAllTabs = false creates, changes and
\* removes no tab record; globalSettings becomes applyToAllTabs = false.
C5_DisableApplyToAll ==
    (done.kind = "updateGlobalSetting" /\ ~done.arg) =>
        /\ tabStore = pre.tabStore
        /\ globalSettings.has
        /\ ~globalSettings.applyToAllTabs

C5_Witness ==
    /\ done.kind = "updateGlobalSetting"
    /\ ~done.arg
    /\ \E t \in OpenTabs : StoredOn(tabStore[t])

\* C6: a tab created in apply-to-all mode has, when onCreated has returned, the
\* stored isGrayscale = globalGrayscaleState (false when undefined), which is
\* the value every other open tab has.
C6_NewTabInherits ==
    (done.kind = "onCreated" /\ ApplyToAll(pre.globalSettings)) =>
        /\ tabStore[done.tabId] =
               TabState(Truthy(pre.globalSettings.globalGrayscaleState))
        /\ \A u \in OpenTabs \ {done.tabId} :
               StoredOn(tabStore[u]) = StoredOn(tabStore[done.tabId])

\* C7: in per-tab mode onCreated and onUpdated(complete) write nothing: the tab
\* records and globalSettings are as before, and a created tab has no
\* grayscale-on record whatever the other tabs hold.
C7_NewTabOff ==
    (done.kind \in {"onCreated", "onUpdated"} /\ ~ApplyToAll(pre.globalSettings)) =>
        /\ tabStore = pre.tabStore
        /\ globalSettings = pre.globalSettings
        /\ done.kind = "onCreated" => ~StoredOn(tabStore[done.tabId])

C7_Witness ==
    /\ done.kind = "onCreated"
    /\ ~ApplyToAll(pre.globalSettings)
    /\ done.tabId \in OpenTabs
    /\ \E u \in OpenTabs : StoredOn(tabStore[u])

\* C8: closing tab t removes the key tab_t from storage and no other key.
C8_RemoveOnlyThatKey ==
    done.kind = "onRemoved" =>
        /\ tabStore[done.tabId] = NoTab
        /\ OthersUnchanged(done.tabId)
        /\ globalSettings = pre.globalSettings

C8_Witness ==
    /\ done.kind = "onRemoved"
    /\ pre.tabStore[done.tabId].has
    /\ \E u \in TabIds \ {done.tabId} : tabStore[u].has

\* C9: in per-tab mode initializeState leaves the class monochrome-enabled on
\* the page exactly when the stored tab_t.isGrayscale is true (no record = not
\* grayscale), so a newly loaded document is rendered in grayscale exactly
\* then, and it writes nothing to storage.
C9_InitRestores ==
    (done.kind = "initializeState" /\ ~ApplyToAll(pre.globalSettings)) =>
        /\ page[done.tabId].cls = StoredOn(tabStore[done.tabId])
        /\ page[done.tabId].filter = "unset" =>
               PageGray(page[done.tabId]) = StoredOn(tabStore[done.tabId])
        /\ tabStore = pre.tabStore
        /\ globalSettings = pre.globalSettings

C9_Witness ==
    /\ done.kind = "initializeState"
    /\ ~ApplyToAll(pre.globalSettings)
    /\ StoredOn(tabStore[done.tabId])
    /\ page[done.tabId] = [cls |-> TRUE, filter |-> "unset"]

\* C10: in per-tab mode, after n toggle requests on the same tab t and nothing
\* else, overlapping or not, once every handler has returned the stored
\* isGrayscale of tab_t is its initial value flipped n times.
C10_RapidToggles ==
    (Quiescent /\ burst.tab # NoTabId /\ ~ApplyToAll(pre.globalSettings)) =>
        StoredOn(tabStore[burst.tab]) =
            (StoredOn(pre.tabStore[burst.tab]) # (burst.n % 2 = 1))


\* ---------------------------------------------------------------- C11..C20
\* the handler that is suspended, when handlers run one at a time
TheHandler == IF Quiescent THEN NoHandler ELSE CHOOSE h \in Running : TRUE

InApply(h) == h.pc \in {"setTab", "icon", "send", "exec", "delay"}

\* position inside one attempt of applyGrayscaleToTab
AttemptRank(pc) ==
    CASE pc = "setTab" -> 1 [] pc = "icon" -> 2 [] pc = "send" -> 3
      [] pc = "exec" -> 4 [] pc = "delay" -> 5 [] OTHER -> 0

\* the call of applyGrayscaleToTab h is in has returned in this step
ApplyReturned(h, h2) ==
    \/ ~InApply(h2)
    \/ h2.pc = "setTab" /\ h2.attempt = 1 /\ Len(h2.queue) < Len(h.queue)

C11_Counter ==
    \A h \in Running : InApply(h) =>
        /\ h.attempt \in 1..Retries
        /\ h.pc = "delay" => h.attempt < Retries

C11_Step ==
    LET h == TheHandler
        h2 == TheHandler'
    IN  (InApply(h) /\ handlers' # handlers) =>
          /\ \/ ApplyReturned(h, h2)
             \/ /\ h2.cur = h.cur /\ h2.queue = h.queue
                /\ \/ h.pc = "delay" /\ h2.pc = "setTab" /\ h2.attempt = h.attempt + 1
                   \/ h2.attempt = h.attempt /\ AttemptRank(h2.pc) > AttemptRank(h.pc)
          /\ page' # page => ApplyReturned(h, h2)

\* C11: a call of applyGrayscaleToTab makes attempts 1..Retries at most; the
\* delay is awaited only after a failed attempt that is not the last, and the
\* next attempt starts only after that delay; a delivery that reached the page
\* ends the call; every step of the call moves forward within the attempt,
\* starts the next attempt, or returns, so the call ends after finitely many
\* steps.
C11_BoundedRetry == []C11_Counter /\ [][C11_Step]_allVars

C11_Witness ==
    /\ done.kind = "onClicked"
    /\ ~ApplyToAll(pre.globalSettings)
    /\ page[done.tabId] = FreshPage
    /\ done.tabId \in OpenTabs

\* C12: every retry loop is bounded: initializeState too gives up after a
\* fixed number of failed attempts, so no retry is scheduled once that many
\* attempts in a row have failed.
C12_InitGivesUp ==
    \A h \in Running :
        (h.kind = "initializeState" /\ h.pc = "retry") => h.attempt < MaxInitFailures

Success == Response("toggleCurrentTab", NoTabId, BoolVal(TRUE), NoTabId)

\* C13: a toggleCurrentTab request is answered once, with { success: true },
\* and not before its toggle has returned: no response exists while the
\* listener is suspended, and exactly this one response exists when it has
\* returned, whether or not a delivery reached the page.
C13_ToggleAnswered ==
    /\ \A h \in Running : h.kind = "toggleCurrentTab" => replies = <<>>
    /\ done.kind = "toggleCurrentTab" => replies = <<Success>>

C13_Witness ==
    /\ done.kind = "toggleCurrentTab"
    /\ done.tabId \in OpenTabs
    /\ tabStore[done.tabId] = TabState(TRUE)
    /\ page[done.tabId] = FreshPage
    /\ replies = <<Success>>

\* C14: the response to getTabId carries the sender's own tab id and nothing
\* else, the content script reads the storage key of that id, and storage is
\* as it was when the request was made.
C14_GetTabId ==
    /\ \A i \in 1..Len(replies) : replies[i].action = "getTabId" =>
           replies[i] = Response("getTabId", replies[i].sender, Undefined,
                                 replies[i].sender)
    /\ \A h \in Running :
           (h.kind = "initializeState" /\ h.pc \in {"getSettings", "getTab"}) =>
               /\ h.cur = h.tabId
               /\ Snapshot = pre

C14_Witness ==
    \E h \in Running :
        /\ h.kind = "initializeState"
        /\ h.pc = "getSettings"
        /\ activeTab \in TabIds \ {h.tabId}
        /\ tabStore[activeTab].has
        /\ replies = <<GetTabIdResponse(h.tabId)>>

\* C15: updateIcon(t, s) leaves the badge of an open tab t at "ON" if s and at ""
\* if not: after a per-tab toggle the badge shows the state that was applied, and
\* after tab t was activated in per-tab mode the badge shows the stored
\* isGrayscale of tab_t ("" without a record) and storage is as it was.
C15_Badge ==
    /\ (ToggleDone /\ ~ApplyToAll(pre.globalSettings) /\ done.tabId \in OpenTabs) =>
           (badge[done.tabId] = "ON") = done.val
    /\ (done.kind = "onActivated" /\ ~ApplyToAll(pre.globalSettings)) =>
           /\ badge[done.tabId] \in {"ON", ""}
           /\ (badge[done.tabId] = "ON") = StoredOn(tabStore[done.tabId])
           /\ Snapshot = pre

C15_Witness ==
    /\ done.kind = "onActivated"
    /\ ~ApplyToAll(pre.globalSettings)
    /\ StoredOn(tabStore[done.tabId])
    /\ badge[done.tabId] = "ON"
    /\ \E u \in OpenTabs : ~tabStore[u].has /\ badge[u] = ""

\* nothing is left for the observer to do: no record queued, no timeout pending
ObserverIdle == \A o \in ObserverIds : records[o] = {} /\ ~timers[o].armed

\* C16: every same-origin iframe inserted under document.body while grayscale
\* is enabled gets the grayscale filter, also when the insertions reach the
\* observer in separate batches within the debounce window: once the observer
\* has nothing left to do, no such iframe is without the filter.
C16_IframesFiltered ==
    ObserverIdle =>
        \A i \in IframeIds :
            (iframes[i].due /\ iframes[i].sameOrigin) => iframes[i].filter

\* C17: after any sequence of toggleGrayscale messages the root element has
\* the class monochrome-enabled exactly if the last message had isGrayscale
\* true, and every message received has been answered with { success: true }.
C17_ClassFollowsMessage ==
    /\ last.by = "message" => doc.cls = last.enabled
    /\ Len(answers) = last.m
    /\ \A i \in 1..Len(answers) :
           answers[i] = Response("toggleGrayscale", NoTabId, BoolVal(TRUE), NoTabId)

C17_Witness ==
    /\ last.by = "message"
    /\ last.m >= 2
    /\ ~last.enabled
    /\ created >= 1
    /\ ~doc.cls
    /\ Len(answers) = last.m

\* C18: the content script holds one observer at most: only the held observer
\* is registered on the body; after a call of toggleGrayscale an observer is
\* held exactly if the call enabled grayscale; an enabling call that found an
\* observer held keeps that observer; a disabling call leaves none held and
\* none registered, with no record queued.
C18_SingleObserver ==
    /\ observing \subseteq {mutationObserver} \ {NoObserver}
    /\ last.n > 0 => ((mutationObserver # NoObserver) = last.enabled)
    /\ (last.enabled /\ last.held # NoObserver) => mutationObserver = last.held
    /\ (last.n > 0 /\ ~last.enabled) =>
           /\ observing = {}
           /\ \A o \in ObserverIds : records[o] = {}

C18_Witness ==
    /\ last.enabled
    /\ last.held # NoObserver
    /\ created = 1
    /\ observing = {mutationObserver}
    /\ mutationObserver = last.held

\* C19: a change of the popup checkbox writes globalSettings =
\* { applyToAllTabs: checked } and afterwards sends updateGlobalSetting with
\* the same value: when the listener has returned, the message carrying the
\* value it wrote is on its way.
C19_WriteThenSend ==
    done.kind = "popupChange" =>
        Message("updateGlobalSetting", done.arg, NoTabId) \in msgs

\* the same for one change at a time, with the write in place when the message
\* is sent
C19_WriteThenSendAlone ==
    /\ C19_WriteThenSend
    /\ \A h \in Running : h.pc = "popupSend" =>
           /\ globalSettings = GlobalSettings(h.arg, Undefined)
           /\ Message("updateGlobalSetting", h.arg, NoTabId) \notin msgs
    /\ done.kind = "popupChange" => globalSettings = GlobalSettings(done.arg, Undefined)

\* C20: when initializePopup has returned, the checkbox is checked exactly if
\* the stored globalSettings has applyToAllTabs true (unchecked without a
\* record), and storage is as it was when the popup was opened.
C20_PopupInit ==
    done.kind = "initializePopup" =>
        /\ checkbox = (globalSettings.has /\ globalSettings.applyToAllTabs)
        /\ Snapshot = pre

C20_Witness ==
    /\ done.kind = "initializePopup"
    /\ checkbox
    /\ globalSettings.has
    /\ \E t \in TabIds : tabStore[t].has

OutsideBackground(h) ==
    h.kind \in {"popupChange", "initializePopup", "initializeState"}

C22_Step == store' # store => ~OutsideBackground(TheHandler)

\* C22: globalSettings and the tab records are written by the background
\* only: no step of a listener of the popup or of the content script changes
\* storage.
C22_OnlyBackgroundWrites == [][C22_Step]_allVars

AllTabsAtRestReached ==
    /\ AllTabsAtRest
    /\ \A t \in TabIds : life[t] # "closed"

\* C24: whenever no handler is in progress and applyToAllTabs is stored true,
\* every open tab that has a record has the stored globalGrayscaleState as its
\* isGrayscale.  Stated here for the states in which globalGrayscaleState is
\* defined and no message is on its way to the background.
C24_QuiescentConsistency ==
    (Quiescent /\ msgs = {} /\ ApplyToAll(globalSettings)
        /\ globalSettings.globalGrayscaleState # Undefined) =>
        \A t \in OpenTabs :
            tabStore[t].has =>
                BoolVal(tabStore[t].isGrayscale) = globalSettings.globalGrayscaleState

\* C25: once all handlers have finished (and no message is on its way),
\* storage holds no record tab_t of a tab t that has been closed.
C25_NoOrphanRecord ==
    (Quiescent /\ msgs = {}) =>
        \A t \in TabIds : life[t] = "closed" => ~tabStore[t].has

\* a toggle handler's write of globalSettings leaves the stored flag as it is
C26_Step ==
    \A h \in Running :
        ToggleSetGlobal(h) => ApplyToAll(globalSettings') = ApplyToAll(globalSettings)

\* C26: a toggle handler never changes the stored applyToAllTabs flag: after
\* the user disabled apply-to-all no toggle still in progress turns it on again.
C26_ToggleKeepsFlag == [][C26_Step]_allVars

\* C27: whenever the stored applyToAllTabs is true, the stored
\* globalGrayscaleState is a defined boolean.
C27_StateDefined ==
    ApplyToAll(globalSettings) => globalSettings.globalGrayscaleState # Undefined

\* a delivery of the attempt is awaited
Delivering(h) == h.pc \in {"send", "exec"}

\* while a delivery is awaited the record and the icon of this attempt are set
C28_WrittenFirst ==
    \A h \in Running : Delivering(h) =>
        /\ tabStore[h.cur] = TabState(h.val)
        /\ h.cur \in OpenTabs => badge[h.cur] = BadgeText(h.val)

C28_Step ==
    LET h == TheHandler
        h2 == TheHandler'
    IN  /\ (h2.pc = "send" /\ h2 # h) => (h.pc = "icon" /\ h2.attempt = h.attempt)
        /\ (h2.pc = "exec" /\ h2 # h) =>
               /\ h.pc = "send" /\ h2.attempt = h.attempt /\ h2.cur = h.cur
               /\ page' = page
        /\ (InApply(h) /\ handlers' # handlers /\ page' # page) =>
               /\ Delivering(h)
               /\ ApplyReturned(h, h2)
               /\ \A t \in TabIds \ {h.cur} : page'[t] = page[t]

\* C28: inside one attempt of applyGrayscaleToTab the tab record is written
\* and the icon updated before a delivery is tried; executeScript is tried only
\* after sendMessage failed in the same attempt; a delivery that reaches the
\* page, by either way, ends the call.
C28_DeliveryOrder == []C28_WrittenFirst /\ [][C28_Step]_allVars

C28_Witness ==
    \E h \in Running :
        /\ h.pc = "exec" /\ h.attempt = 2
        /\ h.cur \in OpenTabs
        /\ tabStore[h.cur] = TabState(TRUE)
        /\ badge[h.cur] = "ON"
        /\ page[h.cur] = FreshPage

\* the last attempt of h's call of applyGrayscaleToTab fails in this step
LastAttemptFails(h) == h.pc = "exec" /\ h.attempt = Retries /\ ApplyExecFail(h)

C29_Step ==
    \A h \in Running : LastAttemptFails(h) =>
        /\ ApplyReturned(h, TheHandler')
        /\ tabStore'[h.cur] = TabState(h.val)
        /\ h.cur \in OpenTabs => badge'[h.cur] = BadgeText(h.val)
        /\ page' = page

\* C29: when the last attempt of applyGrayscaleToTab(t, s) has failed like the
\* attempts before it, the call returns with tab_t.isGrayscale = s and the
\* badge showing s, the page being left as it was.
C29_NoRollback == [][C29_Step]_allVars

C29_Witness ==
    /\ Quiescent /\ events = 1
    /\ done.kind = "onClicked" /\ done.val = TRUE
    /\ done.tabId \in OpenTabs
    /\ tabStore[done.tabId] = TabState(TRUE)
    /\ badge[done.tabId] = "ON"
    /\ page[done.tabId] = FreshPage

\* seq is what is left of list from some position on
IsSuffix(seq, list) ==
    /\ Len(seq) <= Len(list)
    /\ \A i \in 1..Len(seq) : seq[i] = list[Len(list) - Len(seq) + i]

\* the tab being processed and the tabs still to come are the rest of the
\* queried list
C30_InQueryOrder ==
    \A h \in Running :
        (InApply(h) /\ h.queue # <<>>) => IsSuffix(<<h.cur>> \o h.queue, QueryAllTabs)

\* the call of applyGrayscaleToTab h is in ends in this step
CallEnds(h) == ApplySendOk(h) \/ ApplyExecOk(h) \/ LastAttemptFails(h)

C30_Step ==
    LET h == TheHandler
        h2 == TheHandler'
    IN  (InApply(h) /\ handlers' # handlers) =>
          IF CallEnds(h)
          THEN h.queue # <<>> =>
                 /\ h2.pc = "setTab" /\ h2.attempt = 1
                 /\ h2.cur = Head(h.queue) /\ h2.queue = Tail(h.queue)
                 /\ h2.val = h.val /\ h2.kind = h.kind
          ELSE /\ InApply(h2)
               /\ h2.cur = h.cur /\ h2.queue = h.queue /\ h2.val = h.val

C31_BadgeMatchesStore ==
    Quiescent =>
        \A t \in OpenTabs : (badge[t] = "ON") = StoredOn(tabStore[t])

TabEventDone == done.kind \in {"onActivated", "onUpdated"}

\* what onActivated / onUpdated(complete) have left when they have returned
C32_Returned ==
    TabEventDone =>
        IF ApplyToAll(pre.globalSettings)
        THEN /\ tabStore[done.tabId] = TabState(GlobalStateOrFalse(pre.globalSettings))
             /\ OthersUnchanged(done.tabId)
             /\ globalSettings = pre.globalSettings
             /\ done.tabId \in OpenTabs =>
                    (badge[done.tabId] = "ON") = GlobalStateOrFalse(pre.globalSettings)
        ELSE Snapshot = pre

C32_Step ==
    LET h == TheHandler IN
    /\ (h.kind \in {"onActivated", "onUpdated"} /\ handlers' # handlers) =>
          /\ page' # page =>
                /\ ApplyToAll(pre.globalSettings)
                /\ page'[h.tabId].filter = FilterValue(GlobalStateOrFalse(pre.globalSettings))
                /\ \A u \in TabIds \ {h.tabId} : page'[u] = page[u]
          /\ \A u \in TabIds \ {h.tabId} : badge'[u] = badge[u]
    /\ \A t \in TabIds, status \in UpdateStatuses \ {"complete"} :
          TabUpdated(t, status) => UNCHANGED <<store, badge, page, handlers, msgs>>

\* C32: in apply-to-all mode onActivated and onUpdated(complete) for tab t
\* write tab_t.isGrayscale = globalGrayscaleState (false when undefined) and
\* what they deliver to the page of t is that state; an onUpdated event with
\* another status changes nothing; in per-tab mode both write nothing to
\* storage and touch only the icon of t.
C32_TabEvents == []C32_Returned /\ [][C32_Step]_allVars

C32_Witness ==
    /\ TabEventDone
    /\ ApplyToAll(pre.globalSettings)
    /\ done.tabId \in OpenTabs
    /\ pre.globalSettings.globalGrayscaleState = Undefined
    /\ ~pre.tabStore[done.tabId].has
    /\ tabStore[done.tabId] = TabState(FALSE)
    /\ page[done.tabId].filter = FilterValue(FALSE)

\* C33: with the stored applyToAllTabs true, initializeState leaves the class
\* monochrome-enabled on the page exactly when globalGrayscaleState is true
\* (undefined counts as false), whatever the record tab_t holds, and writes
\* nothing to storage.
C33_InitUsesGlobal ==
    (done.kind = "initializeState" /\ ApplyToAll(pre.globalSettings)) =>
        /\ page[done.tabId].cls = Truthy(pre.globalSettings.globalGrayscaleState)
        /\ done.val = Truthy(pre.globalSettings.globalGrayscaleState)
        /\ Snapshot = pre

C33_Witness ==
    /\ done.kind = "initializeState"
    /\ ApplyToAll(pre.globalSettings)
    /\ pre.globalSettings.globalGrayscaleState = Undefined
    /\ StoredOn(tabStore[done.tabId])
    /\ ~page[done.tabId].cls

\* C34: onInstalled writes the default globalSettings { applyToAllTabs: false,
\* globalGrayscaleState: false } only when no globalSettings record exists; an
\* existing record and every tab record are left as they were.
C34_InstallPreserves ==
    done.kind = "onInstalled" =>
        /\ tabStore = pre.tabStore
        /\ globalSettings = IF pre.globalSettings.has
                            THEN pre.globalSettings
                            ELSE GlobalSettings(FALSE, "false")

C34_Witness ==
    /\ done.kind = "onInstalled"
    /\ pre.globalSettings.has
    /\ ApplyToAll(globalSettings)
    /\ \E t \in OpenTabs : tabStore[t].has

\* C35: once the background has finished, the status indicator of the open
\* popup shows ON exactly when the stored isGrayscale of the active tab is true.
C35_IndicatorMatchesStore ==
    (Quiescent /\ msgs = {} /\ statusIndicator \in {"ON", "OFF"} /\ activeTab # NoTabId) =>
        (statusIndicator = "ON") = StoredOn(tabStore[activeTab])

====
